---- MODULE Spec2Model ----
(***************************************************************************)
(* A model of driver/session.go of go-mysqlstack: the Session object, its  *)
(* result writer (writeResult and its phases), its error mapper            *)
(* (writeErrFromError) and its lock-guarded accessors.                     *)
(*                                                                         *)
(* The packet writer (packet.Packets), common.Buffer, sqldb and the        *)
(* greeting/auth objects are collaborators whose code is not part of the   *)
(* modelled file; they are modelled at their interface: appends buffer,    *)
(* Flush hands the buffer to the transport, WriteOK/WriteERR emit one      *)
(* packet and flush, and WriteERR formats its message printf-style.        *)
(***************************************************************************)
EXTENDS Integers, Sequences, FiniteSets, TLC

(***************************************************************************)
(* Bounds of the model.                                                    *)
(***************************************************************************)
MaxFields == 2      \* longest Fields list of a Result
MaxRows == 2        \* longest Rows list of a Result
MaxMsg == 2         \* longest error message, in characters
MaxChunks == 2      \* most RowsOnly calls of a streamed delivery
NumThreads == 2     \* flows of control calling the session's methods

(***************************************************************************)
(* Program constants (package sqldb).                                      *)
(***************************************************************************)
CLIENT_DEPRECATE_EOF == 16777216
CLIENT_PROTOCOL_41 == 512
ER_UNKNOWN_ERROR == 1105
ER_ACCESS_DENIED_ERROR == 1045
SERVER_STATUS_IN_TRANS == 1
SERVER_STATUS_AUTOCOMMIT == 2

(***************************************************************************)
(* sqltypes.Result and its parts.                                          *)
(***************************************************************************)
RState_None == "RState_None"
RState_Fields == "RState_Fields"
RState_Rows == "RState_Rows"
RState_Finished == "RState_Finished"
RStates == {RState_None, RState_Fields, RState_Rows, RState_Finished}

ColNames == <<"id", "name", "age">>
Column(i) == [Name |-> ColNames[((i - 1) % Len(ColNames)) + 1]]
FieldLists == {[i \in 1..n |-> Column(i)] : n \in 0..MaxFields}

\* sqltypes.Value: a nullable raw byte string.
NullValue == [isNull |-> TRUE, raw |-> <<>>]
BytesValue(b) == [isNull |-> FALSE, raw |-> b]
ValuePool == <<NullValue, BytesValue(<<>>), BytesValue(<<49>>)>>
PoolValue(i) == ValuePool[((i - 1) % Len(ValuePool)) + 1]
PoolRow(i) == <<PoolValue(i), PoolValue(i + 1)>>
\* Rows lists: the windows of at most MaxRows consecutive pool rows.
RowLists ==
    {[k \in 1..n |-> PoolRow(i + k - 1)] : i \in 1..MaxRows, n \in 0..MaxRows}

Results ==
    [Fields : FieldLists, Rows : RowLists, RowsAffected : {0, 3},
     InsertID : {0, 7}, Warnings : {0, 1}, State : RStates]

NoResult ==
    [Fields |-> <<>>, Rows |-> <<>>, RowsAffected |-> 0, InsertID |-> 0,
     Warnings |-> 0, State |-> RState_None]

(***************************************************************************)
(* Error values handed to writeErrFromError: a *sqldb.SQLError or any      *)
(* other error, known by its textual description.  Text is a sequence of   *)
(* characters.                                                             *)
(***************************************************************************)
MsgChars == {"a", "%", "v"}
Messages == UNION {[1..n -> MsgChars] : n \in 0..MaxMsg}
SQLErrors ==
    {[kind |-> "SQLError", Num |-> c[1], State |-> c[2], Message |-> m] :
        c \in {<<ER_ACCESS_DENIED_ERROR, "28000">>, <<ER_UNKNOWN_ERROR, "HY000">>},
        m \in Messages}
PlainErrors == {[kind |-> "error", text |-> m] : m \in Messages}
Errors == SQLErrors \cup PlainErrors

NoError == [kind |-> "none"]

Threads == 1..NumThreads
SchemaNames == {"db1", "db2"}
\* The ID a session is created with.
SessionIDs == {5}
NoLocal == [arg |-> "", ptr |-> "", len |-> "", num |-> 0]

StatusFlagSets ==
    {SERVER_STATUS_AUTOCOMMIT, SERVER_STATUS_AUTOCOMMIT + SERVER_STATUS_IN_TRANS}

ClientFlagSets ==
    {0, CLIENT_PROTOCOL_41, CLIENT_DEPRECATE_EOF,
     CLIENT_PROTOCOL_41 + CLIENT_DEPRECATE_EOF}

VARIABLES
    clientFlags,    \* s.auth.ClientFlags(): the negotiated capability bitset
    status,         \* s.greeting.Status()
    buf,            \* s.packets: packets appended and not yet flushed
    wire,           \* packets handed to the transport (s.conn), in order
    flushes,        \* number of Flush calls that handed a batch to the transport
    pc,             \* position of the request handler inside its call
    result,         \* the Result of the writeResult call in progress
    rowIdx,         \* writeRows: index of the next row of result.Rows
    errArg,         \* the error of the writeErrFromError call in progress
    ret,            \* what the last call returned ("none" while running)
    call,           \* the entry point of the call in progress or last returned
    ops,            \* frame-writer operations invoked by the call, in order
    \* a streamed response and the session before this one
    stage,          \* the driver's position in a streamed delivery
    base,           \* Fields and scalar metadata shared by the sub-results
    streamed,       \* rows delivered by the RowsOnly calls so far
    chunks,         \* number of RowsOnly calls made
    prevWire,       \* what the previous session handed to its transport
    prevFlushes,    \* the flushes of the previous session
    \* the lock-guarded surface of the session
    id,             \* s.id, set by newSession
    conn,           \* s.conn: "open", or "nil" once Close has run
    connCloses,     \* number of calls of the transport's Close
    schema,         \* s.schema, a string header: data pointer and length
    mu,             \* s.mu: the readers, the waiting and the holding writer
    tpc,            \* position of each flow of control inside its call
    tlocal,         \* its argument, what it has read and what it returns
    closed,         \* whether some Close call has returned
    lastSet,        \* argument of the latest SetSchema that left its critical section
    panicked        \* "no", or the method that used the absent transport

wvars == <<clientFlags, status, buf, wire, flushes, pc, result, rowIdx, errArg,
           ret, call, ops>>
svars == <<stage, base, streamed, chunks, prevWire, prevFlushes>>
cvars == <<id, conn, connCloses, schema, mu, tpc, tlocal, closed, lastSet, panicked>>
vars == <<clientFlags, status, buf, wire, flushes, pc, result, rowIdx, errArg,
          ret, call, ops, stage, base, streamed, chunks, prevWire, prevFlushes,
          id, conn, connCloses, schema, mu, tpc, tlocal, closed, lastSet,
          panicked>>

(***************************************************************************)
(* The frame writer (packet.Packets) and the row buffer (common.Buffer),   *)
(* at their interface.  A packet is known by its kind and what it carries. *)
(***************************************************************************)
ColumnPacket(f) == [kind |-> "COLUMN", field |-> f]
ColumnPackets(fields) == [i \in 1..Len(fields) |-> ColumnPacket(fields[i])]
EOFPacket == [kind |-> "EOF"]
RowPacket(payload) == [kind |-> "ROW", payload |-> payload]
OKPacket(affected, insertID, st, warnings) ==
    [kind |-> "OK", RowsAffected |-> affected, InsertID |-> insertID,
     Status |-> st, Warnings |-> warnings]
OKWithEOFHeaderPacket(affected, insertID, st, warnings) ==
    [kind |-> "OK_EOF", RowsAffected |-> affected, InsertID |-> insertID,
     Status |-> st, Warnings |-> warnings]
ERRPacket(num, state, message) ==
    [kind |-> "ERR", Num |-> num, State |-> state, Message |-> message]

\* common.Buffer: the length-encoded NULL token and a length-prefixed string.
WriteLenEncodeNUL == <<251>>
WriteLenEncodeBytes(b) == <<Len(b)>> \o b

\* fmt.Sprintf over the verbs the program uses: %v formats its argument,
\* %% is a percent sign, a verb without argument or a trailing % is reported
\* in the output.
RECURSIVE Sprintf(_, _)
Sprintf(format, args) ==
    IF format = <<>> THEN
        IF args = <<>> THEN <<>> ELSE <<"%!(EXTRA)">>
    ELSE IF Head(format) # "%" THEN
        <<Head(format)>> \o Sprintf(Tail(format), args)
    ELSE IF Len(format) = 1 THEN
        <<"%!(NOVERB)">> \o Sprintf(<<>>, args)
    ELSE
        LET verb == format[2]
            rest == SubSeq(format, 3, Len(format))
        IN  IF verb = "%" THEN <<"%">> \o Sprintf(rest, args)
            ELSE IF args = <<>> THEN
                <<"%!", verb, "(MISSING)">> \o Sprintf(rest, args)
            ELSE IF verb = "v" THEN Head(args) \o Sprintf(rest, Tail(args))
            ELSE <<"%!", verb, "(BADVERB)">> \o Sprintf(rest, Tail(args))

\* err.Error(): the textual description of an error value.
ErrorText(e) == IF e.kind = "SQLError" THEN e.Message ELSE e.text

\* sqldb.NewSQLError(ER_UNKNOWN_ERROR, format, args...)
NewSQLError(num, format, args) ==
    [kind |-> "SQLError", Num |-> num, State |-> "HY000",
     Message |-> Sprintf(format, args)]

(***************************************************************************)
(* The session's writer.                                                   *)
(***************************************************************************)
\* A capability test on the wrong bit of the client flags.
DeprecateEOFWrongBit(flags) == (flags \div CLIENT_PROTOCOL_41) % 2 = 1

\* auth.ClientFlags() & CLIENT_DEPRECATE_EOF, as a test.
DeprecateEOF(flags) == (flags \div CLIENT_DEPRECATE_EOF) % 2 = 1

TypeOK ==
    /\ clientFlags \in ClientFlagSets
    /\ status \in StatusFlagSets
    /\ flushes \in Nat
    /\ rowIdx \in Nat
    /\ pc \in {"idle", "writeFields", "writeFieldsEOF", "writeRows",
               "writeFinish", "flush", "WriteOK", "WriteERR", "done"}
    /\ call \in {"none", "writeResult", "writeErrFromError"}
    /\ id \in SessionIDs
    /\ conn \in {"open", "nil"}
    /\ connCloses \in Nat
    /\ mu.readers \subseteq Threads
    /\ mu.pending \in Threads \cup {0}
    /\ mu.writer \in Threads \cup {0}
    /\ mu.writer # 0 => mu.readers = {}
    /\ closed \in BOOLEAN
    /\ lastSet \in SchemaNames \cup {""}
    /\ panicked \in {"no", "Close", "Addr"}

\* newSession: the writer of a new session.
InitWriter ==
    /\ clientFlags \in ClientFlagSets
    /\ status \in StatusFlagSets
    /\ buf = <<>>
    /\ wire = <<>>
    /\ flushes = 0
    /\ pc = "idle"
    /\ result = NoResult
    /\ rowIdx = 1
    /\ errArg = NoError
    /\ ret = "none"
    /\ call = "none"
    /\ ops = <<>>

\* No streamed delivery and no earlier session.
InitNoStream ==
    /\ stage = "off"
    /\ base = NoResult
    /\ streamed = <<>>
    /\ chunks = 0
    /\ prevWire = <<>>
    /\ prevFlushes = 0

\* newSession: the guarded fields of a new session, no call in progress.
InitSession ==
    /\ id \in SessionIDs
    /\ conn = "open"
    /\ connCloses = 0
    /\ schema = [ptr |-> "", len |-> ""]
    /\ mu = [readers |-> {}, pending |-> 0, writer |-> 0]
    /\ tpc = [t \in Threads |-> "idle"]
    /\ tlocal = [t \in Threads |-> NoLocal]
    /\ closed = FALSE
    /\ lastSet = ""
    /\ panicked = "no"

Init == InitWriter /\ InitNoStream /\ InitSession

\* A phase whose error is passed over: the call goes on to its flush.
ReturnErrGoesOn(op) ==
    /\ ret' = op
    /\ pc' = "flush"

\* A frame-writer operation returned the error: the call returns it.
ReturnErr(op) ==
    /\ ret' = op
    /\ pc' = "done"

\* packets.Flush / the write of packets.Write*: the transport receives the
\* batch b, or on failure some prefix of it.
Transport(b, ok) ==
    /\ flushes' = flushes + 1
    /\ IF ok THEN /\ wire' = wire \o b
                  /\ buf' = <<>>
       ELSE \E n \in 0..Len(b) :
                  /\ wire' = wire \o SubSeq(b, 1, n)
                  /\ buf' = b

\* A writeResult whose State Fields case returns without the flush.
AfterFieldsReturnsUnflushed(st) == IF st = RState_None THEN "writeRows" ELSE "done"

\* A writeResult whose State None case stops after the rows phase.
AfterRowsSkipsFinish(st) == "flush"

\* A writeResult whose State Rows case goes on to the finish phase.
AfterRowsAlwaysFinishes(st) == "writeFinish"

\* writeResult: the statement that follows a phase that returned nil.
AfterFields(st) == IF st = RState_None THEN "writeRows" ELSE "flush"
AfterRows(st) == IF st = RState_None THEN "writeFinish" ELSE "flush"

\* A writeResult without the State test of its empty-Fields branch: every
\* Result without Fields is acknowledged.
DispatchAcknowledgesAll(r) ==
    IF Len(r.Fields) = 0 THEN [pc |-> "WriteOK", ret |-> "none"]
    ELSE [ret |-> "none",
          pc |-> CASE r.State = RState_None -> "writeFields"
                   [] r.State = RState_Fields -> "writeFields"
                   [] r.State = RState_Rows -> "writeRows"
                   [] r.State = RState_Finished -> "writeFinish"
                   [] OTHER -> "flush"]

\* writeResult: where the call goes first, and what it returns at once.
Dispatch(r) ==
    IF Len(r.Fields) = 0 THEN
        IF r.State = RState_None
        THEN [pc |-> "WriteOK", ret |-> "none"]
        ELSE [pc |-> "done", ret |-> "unexpected"]
    ELSE [ret |-> "none",
          pc |-> CASE r.State = RState_None -> "writeFields"
                   [] r.State = RState_Fields -> "writeFields"
                   [] r.State = RState_Rows -> "writeRows"
                   [] r.State = RState_Finished -> "writeFinish"
                   [] OTHER -> "flush"]

\* writeResult, entry.
WriteResultCall(r) ==
    /\ call' = "writeResult"
    /\ result' = r
    /\ rowIdx' = 1
    /\ ops' = <<>>
    /\ pc' = Dispatch(r).pc
    /\ ret' = Dispatch(r).ret
    /\ UNCHANGED <<clientFlags, status, buf, wire, flushes, errArg, cvars>>

\* A WriteOK call with RowsAffected and InsertID in each other's place.
WriteOKArgsSwapped(r, st) ==
    [affected |-> r.InsertID, insertID |-> r.RowsAffected, status |-> st,
     warnings |-> r.Warnings]

\* writeResult: the arguments of its packets.WriteOK call.
WriteOKArgs(r, st) ==
    [affected |-> r.RowsAffected, insertID |-> r.InsertID, status |-> st,
     warnings |-> r.Warnings]

\* packets.WriteOK of the empty-Fields branch.
WriteOK ==
    /\ pc = "WriteOK"
    /\ ops' = Append(ops, "WriteOK")
    /\ \E ok \in BOOLEAN :
         /\ LET a == WriteOKArgs(result, status)
            IN  Transport(Append(buf, OKPacket(a.affected, a.insertID,
                                               a.status, a.warnings)), ok)
         /\ ret' = IF ok THEN "nil" ELSE "WriteOK"
    /\ pc' = "done"
    /\ UNCHANGED <<clientFlags, status, result, rowIdx, errArg, call,
                 svars, cvars>>

\* writeFields: packets.AppendColumns.
WriteFieldsColumns ==
    /\ pc = "writeFields"
    /\ ops' = Append(ops, "AppendColumns")
    /\ \E ok \in BOOLEAN :
         IF ok THEN /\ buf' = buf \o ColumnPackets(result.Fields)
                    /\ pc' = IF ~DeprecateEOF(clientFlags) THEN "writeFieldsEOF"
                             ELSE AfterFields(result.State)
                    /\ ret' = ret
         ELSE ReturnErr("AppendColumns") /\ buf' = buf
    /\ UNCHANGED <<clientFlags, status, wire, flushes, result, rowIdx, errArg, call,
                 svars, cvars>>

\* writeFields: packets.AppendEOF, without CLIENT_DEPRECATE_EOF.
WriteFieldsEOF ==
    /\ pc = "writeFieldsEOF"
    /\ ops' = Append(ops, "AppendEOF")
    /\ \E ok \in BOOLEAN :
         IF ok THEN /\ buf' = Append(buf, EOFPacket)
                    /\ pc' = AfterFields(result.State)
                    /\ ret' = ret
         ELSE ReturnErr("AppendEOF") /\ buf' = buf
    /\ UNCHANGED <<clientFlags, status, wire, flushes, result, rowIdx, errArg, call,
                 svars, cvars>>

\* A row encoder that writes a NULL as a zero-length string.
RECURSIVE EncodeRowNullAsEmpty(_)
EncodeRowNullAsEmpty(row) ==
    IF row = <<>> THEN <<>>
    ELSE (IF Head(row).isNull THEN WriteLenEncodeBytes(<<>>)
          ELSE WriteLenEncodeBytes(Head(row).raw)) \o EncodeRowNullAsEmpty(Tail(row))

\* writeRows: the encoding of one row into its buffer.
RECURSIVE EncodeRow(_)
EncodeRow(row) ==
    IF row = <<>> THEN <<>>
    ELSE (IF Head(row).isNull THEN WriteLenEncodeNUL
          ELSE WriteLenEncodeBytes(Head(row).raw)) \o EncodeRow(Tail(row))

\* writeRows: one turn of the loop over result.Rows, or its exit.
WriteRows ==
    /\ pc = "writeRows"
    /\ IF rowIdx > Len(result.Rows) THEN
           /\ pc' = AfterRows(result.State)
           /\ UNCHANGED <<buf, ret, rowIdx, ops>>
       ELSE
           /\ ops' = Append(ops, "Append")
           /\ \E ok \in BOOLEAN :
                IF ok THEN /\ buf' = Append(buf, RowPacket(EncodeRow(result.Rows[rowIdx])))
                           /\ rowIdx' = rowIdx + 1
                           /\ UNCHANGED <<pc, ret>>
                ELSE ReturnErr("Append") /\ UNCHANGED <<buf, rowIdx>>
    /\ UNCHANGED <<clientFlags, status, wire, flushes, result, errArg, call,
                 svars, cvars>>

\* A writeFinish that looks at the rows: the legacy marker only when the
\* Result has rows.
FinishPacketByRows(flags, st, r) ==
    IF ~DeprecateEOF(flags) /\ r.Rows # <<>> THEN EOFPacket
    ELSE OKWithEOFHeaderPacket(r.RowsAffected, r.InsertID, st, r.Warnings)

\* A writeFinish that passes the warnings where the rows affected go.
FinishPacketArgsSwapped(flags, st, r) ==
    IF ~DeprecateEOF(flags) THEN EOFPacket
    ELSE OKWithEOFHeaderPacket(r.Warnings, r.InsertID, st, r.RowsAffected)

\* writeFinish: the terminal packet the capability flags select.
FinishPacket(flags, st, r) ==
    IF ~DeprecateEOF(flags) THEN EOFPacket
    ELSE OKWithEOFHeaderPacket(r.RowsAffected, r.InsertID, st, r.Warnings)

FinishOp(flags) ==
    IF ~DeprecateEOF(flags) THEN "AppendEOF" ELSE "AppendOKWithEOFHeader"

WriteFinish ==
    /\ pc = "writeFinish"
    /\ ops' = Append(ops, FinishOp(clientFlags))
    /\ \E ok \in BOOLEAN :
         IF ok THEN /\ buf' = Append(buf, FinishPacket(clientFlags, status, result))
                    /\ pc' = "flush"
                    /\ ret' = ret
         ELSE ReturnErr(FinishOp(clientFlags)) /\ buf' = buf
    /\ UNCHANGED <<clientFlags, status, wire, flushes, result, rowIdx, errArg, call,
                 svars, cvars>>

\* flush: packets.Flush, and the return of writeResult.
Flush ==
    /\ pc = "flush"
    /\ ops' = Append(ops, "Flush")
    /\ \E ok \in BOOLEAN :
         /\ Transport(buf, ok)
         /\ ret' = IF ok THEN "nil" ELSE "Flush"
    /\ pc' = "done"
    /\ UNCHANGED <<clientFlags, status, result, rowIdx, errArg, call,
                 svars, cvars>>

\* writeErrFromError, entry: the type test on err.
WriteErrFromErrorCall(e) ==
    /\ call' = "writeErrFromError"
    /\ errArg' = e
    /\ ops' = <<>>
    /\ ret' = "none"
    /\ pc' = "WriteERR"
    /\ UNCHANGED <<clientFlags, status, buf, wire, flushes, result, rowIdx,
                 cvars>>

\* writeErrFromError: the arguments of its packets.WriteERR call.
ErrCallArgs(e) ==
    IF e.kind = "SQLError"
    THEN [num |-> e.Num, state |-> e.State, format |-> <<"%", "v">>,
          args |-> <<e.Message>>]
    ELSE LET unknow == NewSQLError(ER_UNKNOWN_ERROR, <<"%", "v">>, <<ErrorText(e)>>)
         IN  [num |-> unknow.Num, state |-> unknow.State,
              format |-> unknow.Message, args |-> <<>>]

\* packets.WriteERR(errorCode, sqlState, format, args...)
WriteERRPacket(a) == ERRPacket(a.num, a.state, Sprintf(a.format, a.args))

WriteERR ==
    /\ pc = "WriteERR"
    /\ ops' = Append(ops, "WriteERR")
    /\ \E ok \in BOOLEAN :
         /\ Transport(Append(buf, WriteERRPacket(ErrCallArgs(errArg))), ok)
         /\ ret' = IF ok THEN "nil" ELSE "WriteERR"
    /\ pc' = "done"
    /\ UNCHANGED <<clientFlags, status, result, rowIdx, errArg, call,
                 svars, cvars>>

\* The request handler: one request/response cycle on the session.
HandleResult ==
    \E r \in Results : pc = "idle" /\ WriteResultCall(r) /\ UNCHANGED svars
HandleError ==
    \E e \in Errors : pc = "idle" /\ WriteErrFromErrorCall(e) /\ UNCHANGED svars

Next ==
    \/ HandleResult
    \/ HandleError
    \/ WriteOK
    \/ WriteFieldsColumns
    \/ WriteFieldsEOF
    \/ WriteRows
    \/ WriteFinish
    \/ Flush
    \/ WriteERR

Spec == Init /\ [][Next]_vars

(***************************************************************************)
(* A streamed delivery: the driver sends one result as writeResult calls   *)
(* with State Fields, then Rows (any number of times), then Finished; the  *)
(* client then reconnects with the same capabilities, and the driver sends *)
(* the same result in one call with State None.                            *)
(***************************************************************************)
StreamBases ==
    {r \in Results : r.Fields # <<>> /\ r.Rows = <<>> /\ r.State = RState_None
                     /\ r.RowsAffected = 3 /\ r.InsertID = 7}
\* Rows of one RowsOnly call.
StreamChunks == {<<>>, <<PoolRow(1)>>, <<PoolRow(2), PoolRow(3)>>}
\* Rows of the sub-result of a FieldsOnly or FinishedOnly call.
StreamOtherRows == {<<>>, <<PoolRow(1)>>}

SubResult(b, st, rows) == [b EXCEPT !.State = st, !.Rows = rows]

InitStream ==
    /\ InitWriter
    /\ InitSession
    /\ stage = "fields"
    /\ base \in StreamBases
    /\ streamed = <<>>
    /\ chunks = 0
    /\ prevWire = <<>>
    /\ prevFlushes = 0

LastCallSucceeded == pc = "done" /\ ret = "nil"

StreamFields ==
    /\ stage = "fields"
    /\ pc = "idle"
    /\ \E rows \in StreamOtherRows :
         WriteResultCall(SubResult(base, RState_Fields, rows))
    /\ stage' = "rows"
    /\ UNCHANGED <<base, streamed, chunks, prevWire, prevFlushes>>

StreamRows ==
    /\ stage = "rows"
    /\ LastCallSucceeded
    /\ chunks < MaxChunks
    /\ \E rows \in StreamChunks :
         /\ WriteResultCall(SubResult(base, RState_Rows, rows))
         /\ streamed' = streamed \o rows
    /\ chunks' = chunks + 1
    /\ UNCHANGED <<stage, base, prevWire, prevFlushes>>

StreamFinished ==
    /\ stage = "rows"
    /\ LastCallSucceeded
    /\ \E rows \in StreamOtherRows :
         WriteResultCall(SubResult(base, RState_Finished, rows))
    /\ stage' = "finished"
    /\ UNCHANGED <<base, streamed, chunks, prevWire, prevFlushes>>

\* newSession for the next connection of the same client: what the old
\* session handed to its transport is kept for comparison.
NewSession ==
    /\ stage = "finished"
    /\ LastCallSucceeded
    /\ prevWire' = wire
    /\ prevFlushes' = flushes
    /\ buf' = <<>>
    /\ wire' = <<>>
    /\ flushes' = 0
    /\ pc' = "idle"
    /\ result' = NoResult
    /\ rowIdx' = 1
    /\ errArg' = NoError
    /\ ret' = "none"
    /\ call' = "none"
    /\ ops' = <<>>
    /\ stage' = "oneShot"
    /\ UNCHANGED <<clientFlags, status, base, streamed, chunks, cvars>>

OneShot ==
    /\ stage = "oneShot"
    /\ pc = "idle"
    /\ WriteResultCall(SubResult(base, RState_None, streamed))
    /\ stage' = "end"
    /\ UNCHANGED <<base, streamed, chunks, prevWire, prevFlushes>>

NextStream ==
    \/ StreamFields
    \/ StreamRows
    \/ StreamFinished
    \/ NewSession
    \/ OneShot
    \/ WriteFieldsColumns
    \/ WriteFieldsEOF
    \/ WriteRows
    \/ WriteFinish
    \/ Flush

SpecStream == InitStream /\ [][NextStream]_vars

(***************************************************************************)
(* A session in use: the request handler makes one call after the other,   *)
(* writeResult with State None or writeErrFromError, on the same session   *)
(* and so on the same frame writer.  A call that returned the error of a   *)
(* write to the transport is the last one: the connection is severed.      *)
(***************************************************************************)
\* Most packets a session is followed for.
MaxWire == 4

SeqFieldLists == {<<>>, <<Column(1)>>}
SeqRowLists == {<<>>, <<PoolRow(1)>>}
SeqResults ==
    {r \in Results : /\ r.State = RState_None
                     /\ r.Fields \in SeqFieldLists
                     /\ r.Rows \in SeqRowLists
                     /\ (r.Fields = <<>> => r.Rows = <<>>)
                     /\ r.RowsAffected = 3 /\ r.InsertID = 7 /\ r.Warnings = 0}
SeqErrors == {e \in Errors : ErrorText(e) = <<"a">>}

TransportFailures == {"Flush", "WriteOK", "WriteERR"}

\* The handler is between two calls and the connection is in use.
BetweenCalls ==
    /\ pc \in {"idle", "done"}
    /\ ret \notin TransportFailures
    /\ Len(wire) + Len(buf) < MaxWire

SeqResult ==
    \E r \in SeqResults : BetweenCalls /\ WriteResultCall(r) /\ UNCHANGED svars
SeqError ==
    \E e \in SeqErrors : BetweenCalls /\ WriteErrFromErrorCall(e) /\ UNCHANGED svars

NextSeq ==
    \/ SeqResult
    \/ SeqError
    \/ WriteOK
    \/ WriteFieldsColumns
    \/ WriteFieldsEOF
    \/ WriteRows
    \/ WriteFinish
    \/ Flush
    \/ WriteERR

SpecSeq == Init /\ [][NextSeq]_vars

(***************************************************************************)
(* The lock-guarded methods: Close, Addr, SetSchema, Schema, called from   *)
(* several flows of control.  s.mu is a sync.RWMutex: RLock waits while a  *)
(* writer holds the lock or waits for it; Lock announces itself and then   *)
(* waits for the readers to leave.  A string is a two-word header (data    *)
(* pointer, length), read and written one word at a time; each word is     *)
(* modelled by the string it belongs to.                                   *)
(***************************************************************************)
\* A SetSchema that takes the lock as the readers do.
SetSchemaLockModeShared == "shared"

\* The mode in which each method takes s.mu.
CloseLockMode == "shared"
AddrLockMode == "shared"
SchemaLockMode == "shared"
IDLockMode == "shared"
SetSchemaLockMode == "exclusive"

\* A request handler that holds s.mu for the whole of a call.
HandlerLockModeExclusive == "exclusive"

\* The mode in which writeResult and writeErrFromError take s.mu: they do
\* not take it.
HandlerLockMode == "none"

\* The handler is inside a call and holds the lock in a mode that keeps a
\* caller asking for mode out.
HandlerExcludes(mode) ==
    /\ pc \notin {"idle", "done"}
    /\ \/ HandlerLockMode = "exclusive"
       \/ HandlerLockMode = "shared" /\ mode = "exclusive"

At(t, p) == panicked = "no" /\ tpc[t] = p
Goto(t, p) == tpc' = [tpc EXCEPT ![t] = p]

\* One step of RLock (shared) or Lock (exclusive) by t; the lock is held at
\* position then.
Acquire(t, mode, then) ==
    IF mode = "shared" THEN
        /\ ~HandlerExcludes(mode)
        /\ mu.writer = 0 /\ mu.pending = 0
        /\ mu' = [mu EXCEPT !.readers = @ \cup {t}]
        /\ Goto(t, then)
    ELSE IF mu.pending # t THEN
        /\ mu.writer = 0 /\ mu.pending = 0
        /\ mu' = [mu EXCEPT !.pending = t]
        /\ UNCHANGED tpc
    ELSE
        /\ ~HandlerExcludes(mode)
        /\ mu.readers = {}
        /\ mu' = [mu EXCEPT !.pending = 0, !.writer = t]
        /\ Goto(t, then)

\* RUnlock (shared) or Unlock (exclusive) by t.
Release(t, mode) ==
    IF mode = "shared" THEN mu' = [mu EXCEPT !.readers = @ \ {t}]
    ELSE mu' = [mu EXCEPT !.writer = 0]

\* The method returns: its locals are gone.
Return(t) ==
    /\ Goto(t, "idle")
    /\ tlocal' = [tlocal EXCEPT ![t] = NoLocal]

\* ---- Close
CallClose(t) ==
    /\ At(t, "idle")
    /\ UNCHANGED <<wvars, svars, id>>
    /\ Goto(t, "Close:lock")
    /\ UNCHANGED <<conn, connCloses, schema, mu, tlocal, closed, lastSet, panicked>>

CloseLock(t) ==
    /\ At(t, "Close:lock")
    /\ UNCHANGED <<wvars, svars, id>>
    /\ Acquire(t, CloseLockMode, "Close:check")
    /\ UNCHANGED <<conn, connCloses, schema, tlocal, closed, lastSet, panicked>>

\* if s.conn != nil
CloseCheck(t) ==
    /\ At(t, "Close:check")
    /\ UNCHANGED <<wvars, svars, id>>
    /\ Goto(t, IF conn # "nil" THEN "Close:conn" ELSE "Close:unlock")
    /\ UNCHANGED <<conn, connCloses, schema, mu, tlocal, closed, lastSet, panicked>>

\* s.conn.Close()
CloseConn(t) ==
    /\ At(t, "Close:conn")
    /\ UNCHANGED <<wvars, svars, id>>
    /\ IF conn = "nil"
       THEN /\ panicked' = "Close"
            /\ UNCHANGED <<connCloses, tpc>>
       ELSE /\ connCloses' = connCloses + 1
            /\ Goto(t, "Close:nil")
            /\ UNCHANGED panicked
    /\ UNCHANGED <<conn, schema, mu, tlocal, closed, lastSet>>

\* A Close that also forgets the schema.
CloseNilResetsSchema(t) ==
    /\ At(t, "Close:nil")
    /\ UNCHANGED <<wvars, svars, id>>
    /\ conn' = "nil"
    /\ schema' = [ptr |-> "", len |-> ""]
    /\ Goto(t, "Close:unlock")
    /\ UNCHANGED <<connCloses, mu, tlocal, closed, lastSet, panicked>>

\* s.conn = nil
CloseNil(t) ==
    /\ At(t, "Close:nil")
    /\ UNCHANGED <<wvars, svars, id>>
    /\ conn' = "nil"
    /\ Goto(t, "Close:unlock")
    /\ UNCHANGED <<connCloses, schema, mu, tlocal, closed, lastSet, panicked>>

CloseUnlock(t) ==
    /\ At(t, "Close:unlock")
    /\ UNCHANGED <<wvars, svars, id>>
    /\ Release(t, CloseLockMode)
    /\ Return(t)
    /\ closed' = TRUE
    /\ UNCHANGED <<conn, connCloses, schema, lastSet, panicked>>

\* ---- Addr
CallAddr(t) ==
    /\ At(t, "idle")
    /\ UNCHANGED <<wvars, svars, id>>
    /\ Goto(t, "Addr:lock")
    /\ UNCHANGED <<conn, connCloses, schema, mu, tlocal, closed, lastSet, panicked>>

AddrLock(t) ==
    /\ At(t, "Addr:lock")
    /\ UNCHANGED <<wvars, svars, id>>
    /\ Acquire(t, AddrLockMode, "Addr:check")
    /\ UNCHANGED <<conn, connCloses, schema, tlocal, closed, lastSet, panicked>>

\* if s.conn != nil ... else return "unknow"
AddrCheck(t) ==
    /\ At(t, "Addr:check")
    /\ UNCHANGED <<wvars, svars, id>>
    /\ IF conn # "nil"
       THEN Goto(t, "Addr:deref") /\ UNCHANGED tlocal
       ELSE /\ Goto(t, "Addr:unlock")
            /\ tlocal' = [tlocal EXCEPT ![t].ptr = "unknow", ![t].len = "unknow"]
    /\ UNCHANGED <<conn, connCloses, schema, mu, closed, lastSet, panicked>>

\* return s.conn.RemoteAddr().String()
AddrDeref(t) ==
    /\ At(t, "Addr:deref")
    /\ UNCHANGED <<wvars, svars, id>>
    /\ IF conn = "nil"
       THEN /\ panicked' = "Addr"
            /\ UNCHANGED <<tpc, tlocal>>
       ELSE /\ Goto(t, "Addr:unlock")
            /\ tlocal' = [tlocal EXCEPT ![t].ptr = "remote", ![t].len = "remote"]
            /\ UNCHANGED panicked
    /\ UNCHANGED <<conn, connCloses, schema, mu, closed, lastSet>>

AddrUnlock(t) ==
    /\ At(t, "Addr:unlock")
    /\ UNCHANGED <<wvars, svars, id>>
    /\ Release(t, AddrLockMode)
    /\ Return(t)
    /\ UNCHANGED <<conn, connCloses, schema, closed, lastSet, panicked>>

\* ---- SetSchema
CallSetSchema(t) ==
    /\ At(t, "idle")
    /\ UNCHANGED <<wvars, svars, id>>
    /\ \E v \in SchemaNames : tlocal' = [tlocal EXCEPT ![t].arg = v]
    /\ Goto(t, "SetSchema:lock")
    /\ UNCHANGED <<conn, connCloses, schema, mu, closed, lastSet, panicked>>

SetSchemaLock(t) ==
    /\ At(t, "SetSchema:lock")
    /\ UNCHANGED <<wvars, svars, id>>
    /\ Acquire(t, SetSchemaLockMode, "SetSchema:ptr")
    /\ UNCHANGED <<conn, connCloses, schema, tlocal, closed, lastSet, panicked>>

\* s.schema = schema, first word
SetSchemaPtr(t) ==
    /\ At(t, "SetSchema:ptr")
    /\ UNCHANGED <<wvars, svars, id>>
    /\ schema' = [schema EXCEPT !.ptr = tlocal[t].arg]
    /\ Goto(t, "SetSchema:len")
    /\ UNCHANGED <<conn, connCloses, mu, tlocal, closed, lastSet, panicked>>

\* s.schema = schema, second word
SetSchemaLen(t) ==
    /\ At(t, "SetSchema:len")
    /\ UNCHANGED <<wvars, svars, id>>
    /\ schema' = [schema EXCEPT !.len = tlocal[t].arg]
    /\ Goto(t, "SetSchema:unlock")
    /\ UNCHANGED <<conn, connCloses, mu, tlocal, closed, lastSet, panicked>>

SetSchemaUnlock(t) ==
    /\ At(t, "SetSchema:unlock")
    /\ UNCHANGED <<wvars, svars, id>>
    /\ Release(t, SetSchemaLockMode)
    /\ lastSet' = tlocal[t].arg
    /\ Return(t)
    /\ UNCHANGED <<conn, connCloses, schema, closed, panicked>>

\* ---- Schema
CallSchema(t) ==
    /\ At(t, "idle")
    /\ UNCHANGED <<wvars, svars, id>>
    /\ Goto(t, "Schema:lock")
    /\ UNCHANGED <<conn, connCloses, schema, mu, tlocal, closed, lastSet, panicked>>

SchemaLock(t) ==
    /\ At(t, "Schema:lock")
    /\ UNCHANGED <<wvars, svars, id>>
    /\ Acquire(t, SchemaLockMode, "Schema:ptr")
    /\ UNCHANGED <<conn, connCloses, schema, tlocal, closed, lastSet, panicked>>

\* return s.schema, first word
SchemaPtr(t) ==
    /\ At(t, "Schema:ptr")
    /\ UNCHANGED <<wvars, svars, id>>
    /\ tlocal' = [tlocal EXCEPT ![t].ptr = schema.ptr]
    /\ Goto(t, "Schema:len")
    /\ UNCHANGED <<conn, connCloses, schema, mu, closed, lastSet, panicked>>

\* return s.schema, second word
SchemaLen(t) ==
    /\ At(t, "Schema:len")
    /\ UNCHANGED <<wvars, svars, id>>
    /\ tlocal' = [tlocal EXCEPT ![t].len = schema.len]
    /\ Goto(t, "Schema:unlock")
    /\ UNCHANGED <<conn, connCloses, schema, mu, closed, lastSet, panicked>>

SchemaUnlock(t) ==
    /\ At(t, "Schema:unlock")
    /\ UNCHANGED <<wvars, svars, id>>
    /\ Release(t, SchemaLockMode)
    /\ Return(t)
    /\ UNCHANGED <<conn, connCloses, schema, closed, lastSet, panicked>>

\* ---- ID (User, Salt, Scramble and Charset have the same shape: RLock,
\* one read of a field that no method writes, RUnlock)
CallID(t) ==
    /\ At(t, "idle")
    /\ UNCHANGED <<wvars, svars, id>>
    /\ Goto(t, "ID:lock")
    /\ UNCHANGED <<conn, connCloses, schema, mu, tlocal, closed, lastSet, panicked>>

IDLock(t) ==
    /\ At(t, "ID:lock")
    /\ UNCHANGED <<wvars, svars, id>>
    /\ Acquire(t, IDLockMode, "ID:read")
    /\ UNCHANGED <<conn, connCloses, schema, tlocal, closed, lastSet, panicked>>

\* return s.id
IDRead(t) ==
    /\ At(t, "ID:read")
    /\ UNCHANGED <<wvars, svars, id>>
    /\ tlocal' = [tlocal EXCEPT ![t].num = id]
    /\ Goto(t, "ID:unlock")
    /\ UNCHANGED <<conn, connCloses, schema, mu, closed, lastSet, panicked>>

IDUnlock(t) ==
    /\ At(t, "ID:unlock")
    /\ UNCHANGED <<wvars, svars, id>>
    /\ Release(t, IDLockMode)
    /\ Return(t)
    /\ UNCHANGED <<conn, connCloses, schema, closed, lastSet, panicked>>

\* The steps of Addr, SetSchema and Schema once called.
AccessorStep(t) ==
    \/ AddrLock(t) \/ AddrCheck(t) \/ AddrDeref(t) \/ AddrUnlock(t)
    \/ SetSchemaLock(t) \/ SetSchemaPtr(t) \/ SetSchemaLen(t) \/ SetSchemaUnlock(t)
    \/ SchemaLock(t) \/ SchemaPtr(t) \/ SchemaLen(t) \/ SchemaUnlock(t)

\* Addr, SetSchema and Schema called concurrently on an open session.
NextAccessors ==
    \/ \E t \in Threads : CallAddr(t)
    \/ \E t \in Threads : CallSetSchema(t)
    \/ \E t \in Threads : CallSchema(t)
    \/ \E t \in Threads : AddrLock(t)
    \/ \E t \in Threads : AddrCheck(t)
    \/ \E t \in Threads : AddrDeref(t)
    \/ \E t \in Threads : AddrUnlock(t)
    \/ \E t \in Threads : SetSchemaLock(t)
    \/ \E t \in Threads : SetSchemaPtr(t)
    \/ \E t \in Threads : SetSchemaLen(t)
    \/ \E t \in Threads : SetSchemaUnlock(t)
    \/ \E t \in Threads : SchemaLock(t)
    \/ \E t \in Threads : SchemaPtr(t)
    \/ \E t \in Threads : SchemaLen(t)
    \/ \E t \in Threads : SchemaUnlock(t)

\* The same with Close.
NextSession ==
    \/ NextAccessors
    \/ \E t \in Threads : CallClose(t)
    \/ \E t \in Threads : CloseLock(t)
    \/ \E t \in Threads : CloseCheck(t)
    \/ \E t \in Threads : CloseConn(t)
    \/ \E t \in Threads : CloseNil(t)
    \/ \E t \in Threads : CloseUnlock(t)
    \/ \E t \in Threads : CallID(t)
    \/ \E t \in Threads : IDLock(t)
    \/ \E t \in Threads : IDRead(t)
    \/ \E t \in Threads : IDUnlock(t)

\* A session after its handshake, no request in progress.
InitMethods ==
    /\ Init
    /\ clientFlags = CLIENT_PROTOCOL_41
    /\ status = SERVER_STATUS_AUTOCOMMIT

SpecSession == InitMethods /\ [][NextSession]_vars

\* The scheduler runs every flow of control that can take a step, and the
\* RWMutex starves neither readers nor writers: a call that has started
\* takes each of its steps if the step is possible again and again.
FairAccessors == \A t \in Threads : SF_vars(AccessorStep(t))

SpecAccessors == InitMethods /\ [][NextAccessors]_vars /\ FairAccessors

(***************************************************************************)
(* Properties of the writer.                                               *)
(***************************************************************************)
\* The deprecate-EOF capability bit of the negotiated flags.
BitSet == clientFlags \in {CLIENT_DEPRECATE_EOF,
                           CLIENT_DEPRECATE_EOF + CLIENT_PROTOCOL_41}
TerminalKinds == {"EOF", "OK_EOF"}
Count(seq, x) == Cardinality({i \in 1..Len(seq) : seq[i] = x})

ReturnedFrom(c) == call = c /\ pc = "done"

\* C1: a writeResult of a Result with Fields and State None in which no
\* frame-writer operation fails hands to the transport the column packets
\* (and the legacy marker without the deprecate-EOF bit), then one packet per
\* row, then exactly one terminal packet, and flushes once, as its last
\* operation.
C1_CompleteResponseInOrder ==
    (ReturnedFrom("writeResult") /\ ret = "nil" /\ result.Fields # <<>>
        /\ result.State = RState_None) =>
    LET nf == Len(result.Fields)
        ne == IF BitSet THEN 0 ELSE 1
        nr == Len(result.Rows)
    IN  /\ Len(wire) = nf + ne + nr + 1
        /\ \A i \in 1..nf : wire[i] = [kind |-> "COLUMN", field |-> result.Fields[i]]
        /\ ne = 1 => wire[nf + 1] = [kind |-> "EOF"]
        /\ \A i \in 1..nr :
              wire[nf + ne + i] = [kind |-> "ROW", payload |-> EncodeRow(result.Rows[i])]
        /\ wire[Len(wire)].kind \in TerminalKinds
        /\ buf = <<>>
        /\ flushes = 1
        /\ Len(ops) = 1 + ne + nr + 2
        /\ ops[1] = "AppendColumns"
        /\ ne = 1 => ops[2] = "AppendEOF"
        /\ \A i \in 1..nr : ops[1 + ne + i] = "Append"
        /\ ops[Len(ops) - 1] \in {"AppendEOF", "AppendOKWithEOFHeader"}
        /\ ops[Len(ops)] = "Flush"
        /\ Count(ops, "Flush") = 1

C1_Witness ==
    /\ ReturnedFrom("writeResult") /\ ret = "nil"
    /\ result.State = RState_None
    /\ Len(result.Fields) = MaxFields /\ Len(result.Rows) = MaxRows
    /\ ~BitSet
    /\ Len(wire) = MaxFields + MaxRows + 2

\* C2: a writeResult of a Result without Fields and with State None makes one
\* WriteOK call and nothing else; what reaches the transport is at most one
\* packet, the OK packet with the Result's RowsAffected, InsertID and
\* Warnings and the greeting's status, and on success exactly that packet.
C2_EmptyFieldsSingleOK ==
    (ReturnedFrom("writeResult") /\ result.Fields = <<>>
        /\ result.State = RState_None) =>
    LET okPkt == [kind |-> "OK", RowsAffected |-> result.RowsAffected,
                  InsertID |-> result.InsertID, Status |-> status,
                  Warnings |-> result.Warnings]
    IN  /\ ops = <<"WriteOK">>
        /\ wire \in {<<>>, <<okPkt>>}
        /\ ret = "nil" => wire = <<okPkt>> /\ buf = <<>>

C2_Witness ==
    /\ ReturnedFrom("writeResult") /\ ret = "nil"
    /\ result.Fields = <<>> /\ result.Rows = <<>> /\ result.State = RState_None
    /\ result.RowsAffected = 3 /\ result.InsertID = 7
    /\ Len(wire) = 1 /\ wire[1].kind = "OK"

\* C3: a writeResult of a Result without Fields whose State is not None
\* returns the shape-violation error at once: no frame-writer operation is
\* invoked, nothing is buffered and nothing is written or flushed.
C3_EmptyFieldsOtherStateFails ==
    (call = "writeResult" /\ result.Fields = <<>> /\ result.State # RState_None) =>
        /\ pc = "done"
        /\ ret = "unexpected"
        /\ ops = <<>>
        /\ buf = <<>>
        /\ wire = <<>>
        /\ flushes = 0

C3_Witness ==
    /\ ReturnedFrom("writeResult") /\ ret = "unexpected"
    /\ result.Fields = <<>> /\ result.State = RState_Rows
    /\ result.Rows # <<>>

\* C4: a writeResult of a Result that has rows and no Fields returns an error
\* and emits no packet, whatever its State.
C4_RowsWithoutFieldsRejected ==
    (ReturnedFrom("writeResult") /\ result.Fields = <<>> /\ result.Rows # <<>>) =>
        /\ ret # "nil"
        /\ wire = <<>>
        /\ buf = <<>>

\* C6: the packet the finish phase appends is the legacy marker when the
\* deprecate-EOF bit is clear and the OK-shaped terminal when it is set,
\* whatever the Fields, Rows, RowsAffected, InsertID and Warnings.
C6_TerminalShapeByFlagAlone ==
    (call = "writeResult" /\ pc = "flush"
        /\ result.State \in {RState_None, RState_Finished}) =>
        /\ buf # <<>>
        /\ buf[Len(buf)].kind = IF BitSet THEN "OK_EOF" ELSE "EOF"

C6_Witness ==
    /\ call = "writeResult" /\ pc = "flush"
    /\ result.State = RState_Finished
    /\ result.Rows = <<>>
    /\ ~BitSet
    /\ buf = <<[kind |-> "EOF"]>>

\* C10: writeErrFromError makes exactly one WriteERR call, and the packet it
\* writes carries the code, SQL state and message of a SQLError unchanged,
\* and for any other error the unknown-error code, its SQL state and the
\* error's textual description.
C10_ErrorPacketCarriesError ==
    ReturnedFrom("writeErrFromError") =>
        /\ ops = <<"WriteERR">>
        /\ ret = "nil" =>
             wire = <<IF errArg.kind = "SQLError"
                      THEN [kind |-> "ERR", Num |-> errArg.Num,
                            State |-> errArg.State, Message |-> errArg.Message]
                      ELSE [kind |-> "ERR", Num |-> ER_UNKNOWN_ERROR,
                            State |-> "HY000", Message |-> errArg.text]>>

\* C5: when a streamed delivery (FieldsOnly, RowsOnly n times, FinishedOnly)
\* and a single State None call with the concatenated rows both succeed
\* under the same capability flags, the transport received the same packet
\* sequence in both; the streamed run flushed n + 2 times, the single call
\* once.
C5_StreamingEquivalence ==
    (stage = "end" /\ LastCallSucceeded) =>
        /\ wire = prevWire
        /\ flushes = 1
        /\ prevFlushes = chunks + 2

C5_Witness ==
    /\ stage = "end" /\ LastCallSucceeded
    /\ chunks = MaxChunks
    /\ Len(streamed) >= 3
    /\ Len(prevWire) >= 5
    /\ result.Rows = streamed

(***************************************************************************)
(* The session as a whole: the request handler serves one request with a   *)
(* writeResult or a writeErrFromError call while other flows of control    *)
(* call the lock-guarded methods.                                          *)
(***************************************************************************)
\* The requests served: an acknowledgment, a result set with a row, an
\* error that is not a SQLError.
ServeResults == {r \in SeqResults : r.Fields = <<>> \/ r.Rows # <<>>}
ServeErrors == {e \in SeqErrors : e.kind = "error"}

ServeResult ==
    \E r \in ServeResults : pc = "idle" /\ WriteResultCall(r) /\ UNCHANGED svars
ServeError ==
    \E e \in ServeErrors : pc = "idle" /\ WriteErrFromErrorCall(e) /\ UNCHANGED svars

\* The steps of ID once called.
IDStep(t) == IDLock(t) \/ IDRead(t) \/ IDUnlock(t)

\* The flows of control that call the methods while the handler serves.
NumCallers == 1
Callers == 1..NumCallers

\* The handler and the callers of Addr, SetSchema, Schema and ID on an open
\* session.
NextBlocked ==
    \/ ServeResult
    \/ ServeError
    \/ WriteOK
    \/ WriteFieldsColumns
    \/ WriteFieldsEOF
    \/ WriteRows
    \/ WriteFinish
    \/ Flush
    \/ WriteERR
    \/ \E t \in Callers : CallAddr(t)
    \/ \E t \in Callers : AddrLock(t)
    \/ \E t \in Callers : AddrCheck(t)
    \/ \E t \in Callers : AddrDeref(t)
    \/ \E t \in Callers : AddrUnlock(t)
    \/ \E t \in Callers : CallSetSchema(t)
    \/ \E t \in Callers : SetSchemaLock(t)
    \/ \E t \in Callers : SetSchemaPtr(t)
    \/ \E t \in Callers : SetSchemaLen(t)
    \/ \E t \in Callers : SetSchemaUnlock(t)
    \/ \E t \in Callers : CallSchema(t)
    \/ \E t \in Callers : SchemaLock(t)
    \/ \E t \in Callers : SchemaPtr(t)
    \/ \E t \in Callers : SchemaLen(t)
    \/ \E t \in Callers : SchemaUnlock(t)
    \/ \E t \in Callers : CallID(t)
    \/ \E t \in Callers : IDLock(t)
    \/ \E t \in Callers : IDRead(t)
    \/ \E t \in Callers : IDUnlock(t)

\* The callers of the methods are scheduled as in SpecAccessors.  Nothing
\* is assumed of the handler: each of its frame-writer operations may block
\* on the transport for ever.
FairCallers == \A t \in Callers : SF_vars(AccessorStep(t) \/ IDStep(t))

SpecBlocked == InitMethods /\ [][NextBlocked]_vars /\ FairCallers

\* The same with Close, and no assumption on any flow of control.
NextLife ==
    \/ ServeResult
    \/ ServeError
    \/ WriteOK
    \/ WriteFieldsColumns
    \/ WriteFieldsEOF
    \/ WriteRows
    \/ WriteFinish
    \/ Flush
    \/ WriteERR
    \/ \E t \in Callers : CallAddr(t)
    \/ \E t \in Callers : AddrLock(t)
    \/ \E t \in Callers : AddrCheck(t)
    \/ \E t \in Callers : AddrDeref(t)
    \/ \E t \in Callers : AddrUnlock(t)
    \/ \E t \in Callers : CallSetSchema(t)
    \/ \E t \in Callers : SetSchemaLock(t)
    \/ \E t \in Callers : SetSchemaPtr(t)
    \/ \E t \in Callers : SetSchemaLen(t)
    \/ \E t \in Callers : SetSchemaUnlock(t)
    \/ \E t \in Callers : CallSchema(t)
    \/ \E t \in Callers : SchemaLock(t)
    \/ \E t \in Callers : SchemaPtr(t)
    \/ \E t \in Callers : SchemaLen(t)
    \/ \E t \in Callers : SchemaUnlock(t)
    \/ \E t \in Callers : CallID(t)
    \/ \E t \in Callers : IDLock(t)
    \/ \E t \in Callers : IDRead(t)
    \/ \E t \in Callers : IDUnlock(t)
    \/ \E t \in Callers : CallClose(t)
    \/ \E t \in Callers : CloseLock(t)
    \/ \E t \in Callers : CloseCheck(t)
    \/ \E t \in Callers : CloseConn(t)
    \/ \E t \in Callers : CloseNil(t)
    \/ \E t \in Callers : CloseUnlock(t)

SpecLife == InitMethods /\ [][NextLife]_vars

(***************************************************************************)
(* Properties of the phases of writeResult.                                *)
(***************************************************************************)
AppendOps == {"AppendColumns", "AppendEOF", "Append", "AppendOKWithEOFHeader"}

\* The frame-writer operations of a writeResult call of r in which none
\* fails, in order.
FieldsOps == <<"AppendColumns">> \o (IF BitSet THEN <<>> ELSE <<"AppendEOF">>)
RowsOps(r) == [i \in 1..Len(r.Rows) |-> "Append"]
FinishOps == <<IF BitSet THEN "AppendOKWithEOFHeader" ELSE "AppendEOF">>
FullOps(r) ==
    (CASE r.State = RState_None -> FieldsOps \o RowsOps(r) \o FinishOps
       [] r.State = RState_Fields -> FieldsOps
       [] r.State = RState_Rows -> RowsOps(r)
       [] r.State = RState_Finished -> FinishOps) \o <<"Flush">>

\* A writeResult call that returned the error of an append operation ran
\* the operations of its phases up to that one and nothing after it, and
\* handed nothing to the transport.
FailedCallStoppedAtError ==
    (ReturnedFrom("writeResult") /\ ret \in AppendOps) =>
        /\ \E n \in 1..(Len(FullOps(result)) - 1) :
             /\ ops = SubSeq(FullOps(result), 1, n)
             /\ ops[n] = ret
        /\ Count(ops, "Flush") = 0
        /\ flushes = 0
        /\ wire = <<>>

\* The step in which an append operation of writeResult fails (it was
\* invoked and the buffer did not grow) ends the call with that error.
FailureStepReturns ==
    (/\ call = "writeResult"
     /\ Len(ops') = Len(ops) + 1
     /\ ops'[Len(ops')] \in AppendOps
     /\ buf' = buf)
    => /\ pc' = "done"
       /\ ret' = ops'[Len(ops')]
       /\ wire' = wire
       /\ flushes' = flushes

\* C11: when a frame-writer operation fails inside a phase of writeResult,
\* the call ends in that step and returns exactly that error; it has run no
\* later phase and no flush, and nothing follows the return (no retry).
C11_FirstErrorEndsCall ==
    /\ []FailedCallStoppedAtError
    /\ [][FailureStepReturns]_vars
    /\ [][pc # "done"]_vars

C11_Witness ==
    /\ ReturnedFrom("writeResult")
    /\ ret = "Append"
    /\ ops = <<"AppendColumns", "AppendEOF", "Append", "Append">>
    /\ Len(buf) = 3
    /\ wire = <<>>

CallFailures == AppendOps \cup {"Flush", "WriteOK", "unexpected"}

PhaseDone(st) ==
    /\ call = "writeResult"
    /\ result.State = st
    /\ result.Fields # <<>>
    /\ pc = "flush"

\* C14: the fields phase emits one column packet per element of Fields, in
\* array order, followed by the legacy terminal marker exactly when the
\* deprecate-EOF bit is not among the client's capability flags.
C14_FieldsPhase ==
    PhaseDone(RState_Fields) =>
        buf = [i \in 1..Len(result.Fields) |->
                  [kind |-> "COLUMN", field |-> result.Fields[i]]]
              \o (IF BitSet THEN <<>> ELSE <<[kind |-> "EOF"]>>)

C14_Witness ==
    /\ PhaseDone(RState_Fields)
    /\ ~BitSet
    /\ Len(result.Fields) = 2
    /\ Len(buf) = 3
    /\ buf[3].kind = "EOF"

\* C15: the finish phase emits exactly one packet: the legacy terminal
\* marker when the deprecate-EOF bit is not set, and otherwise the OK-shaped
\* terminal packet with the Result's RowsAffected, InsertID and Warnings and
\* the greeting's status flags.
C15_FinishPhase ==
    PhaseDone(RState_Finished) =>
        buf = << IF BitSet
                 THEN [kind |-> "OK_EOF", RowsAffected |-> result.RowsAffected,
                       InsertID |-> result.InsertID, Status |-> status,
                       Warnings |-> result.Warnings]
                 ELSE [kind |-> "EOF"] >>

C15_Witness ==
    /\ PhaseDone(RState_Finished)
    /\ BitSet
    /\ Len(buf) = 1
    /\ buf[1].kind = "OK_EOF"
    /\ buf[1].RowsAffected = 3
    /\ buf[1].Warnings = 1

\* The Result that differs from r in its warning count only.
OtherWarnings(r) == [r EXCEPT !.Warnings = 1 - @]

\* C16: without the deprecate-EOF bit, the marker the finish phase emits
\* depends on the Result's warning count: it is not the marker the same
\* phase emits for the Result that differs in Warnings only.
C16_LegacyMarkerCarriesWarnings ==
    (PhaseDone(RState_Finished) /\ ~BitSet) =>
        buf[1] # FinishPacket(clientFlags, status, OtherWarnings(result))

\* The token of one value: the NULL marker, or the length and the bytes.
Token(v) == IF v.isNull THEN <<251>> ELSE <<Len(v.raw)>> \o v.raw
RECURSIVE Tokens(_)
Tokens(row) == IF row = <<>> THEN <<>> ELSE Token(Head(row)) \o Tokens(Tail(row))

\* C17: the rows phase emits one packet per row, in row order, and no
\* terminal marker; a row's packet is the tokens of its values in column
\* order, a NULL as the NULL marker and any other value as its length and
\* bytes, so that a NULL never encodes as the zero-length string does.
C17_RowsPhase ==
    PhaseDone(RState_Rows) =>
        /\ buf = [i \in 1..Len(result.Rows) |->
                     [kind |-> "ROW", payload |-> Tokens(result.Rows[i])]]
        /\ \A i \in 1..Len(result.Rows) : \A j \in 1..Len(result.Rows[i]) :
             result.Rows[i][j].isNull =>
                 EncodeRow(<<result.Rows[i][j]>>) # EncodeRow(<<BytesValue(<<>>)>>)

C17_Witness ==
    /\ PhaseDone(RState_Rows)
    /\ result.Rows = <<PoolRow(1), PoolRow(2)>>
    /\ Len(buf) = 2
    /\ buf[1].payload = <<251, 0>>
    /\ buf[2].payload = <<0, 1, 49>>

(***************************************************************************)
(* Properties of a sequence of calls.                                      *)
(***************************************************************************)
\* w, read from the parser state st, is a concatenation of error packets,
\* OK packets and complete result sets: column packets, the legacy marker
\* without the deprecate-EOF bit, row packets, one terminal packet.
RECURSIVE Responses(_, _)
Responses(w, st) ==
    IF w = <<>> THEN st = "start"
    ELSE LET k == Head(w).kind
             terminal == IF BitSet THEN "OK_EOF" ELSE "EOF"
         IN  CASE st = "start" ->
                    IF k \in {"ERR", "OK"} THEN Responses(Tail(w), "start")
                    ELSE k = "COLUMN" /\ Responses(Tail(w), "columns")
               [] st = "columns" ->
                    IF k = "COLUMN" THEN Responses(Tail(w), "columns")
                    ELSE IF ~BitSet THEN k = "EOF" /\ Responses(Tail(w), "rows")
                    ELSE IF k = "ROW" THEN Responses(Tail(w), "rows")
                    ELSE k = terminal /\ Responses(Tail(w), "start")
               [] st = "rows" ->
                    IF k = "ROW" THEN Responses(Tail(w), "rows")
                    ELSE k = terminal /\ Responses(Tail(w), "start")

\* C13: over a sequence of writeResult (State None) and writeErrFromError
\* calls on one session, as long as no write to the transport has failed,
\* what the transport has received is a concatenation of complete responses
\* and single error packets: no packet of a call that failed before its
\* flush is among them.
C13_OnlyWholeResponsesOnTransport ==
    ret \notin TransportFailures => Responses(wire, "start")

(***************************************************************************)
(* Properties of the lock-guarded methods.                                 *)
(***************************************************************************)
\* C7: over any number of Close calls, in any interleaving, the transport's
\* Close is invoked at most once, no Close call fails on an absent
\* transport, and once a Close call has returned the transport is absent.
C7_CloseOnce ==
    /\ connCloses <= 1
    /\ panicked # "Close"
    /\ closed => conn = "nil"

\* C8: under any interleaving of Addr with Close, Addr never uses the
\* transport after Close has marked it absent: it returns the remote address
\* of a transport that is present when it is used, or the sentinel.
C8_AddrNeverUsesAbsentTransport ==
    /\ panicked # "Addr"
    /\ \A t \in Threads :
         tpc[t] = "Addr:unlock" => tlocal[t].ptr \in {"remote", "unknow"}

\* C9: with Schema, SetSchema and Addr called concurrently, a Schema call
\* reads both words of the string from the same SetSchema, the latest one
\* that left its critical section (or the initial empty string), and every
\* call that has started returns.
C9_SchemaWhole ==
    \A t \in Threads :
        tpc[t] = "Schema:unlock" =>
            tlocal[t].ptr = lastSet /\ tlocal[t].len = lastSet

C9_SchemaNeverTornNoDeadlock ==
    /\ []C9_SchemaWhole
    /\ \A t \in Threads : (tpc[t] # "idle") ~> (tpc[t] = "idle")

C9_Witness ==
    /\ tpc[1] = "Schema:unlock"
    /\ tlocal[1].ptr = "db2"
    /\ lastSet = "db2"
    /\ tpc[2] = "SetSchema:lock"
    /\ tlocal[2].arg = "db1"
    /\ mu.pending = 2

\* The positions of a call at which it holds s.mu.
CloseSection == {"Close:check", "Close:conn", "Close:nil", "Close:unlock"}
SetSchemaSection == {"SetSchema:ptr", "SetSchema:len", "SetSchema:unlock"}
ReadSection ==
    {"Addr:check", "Addr:deref", "Addr:unlock", "Schema:ptr", "Schema:len",
     "Schema:unlock", "ID:read", "ID:unlock"}
InSection(t) == tpc[t] \in CloseSection \cup SetSchemaSection \cup ReadSection

\* C19: while a Close or a SetSchema is inside its critical section, no
\* other Close, SetSchema or read accessor is inside its own.
C19_CloseAndSetSchemaExclusive ==
    \A t \in Threads : \A u \in Threads \ {t} :
        tpc[t] \in CloseSection \cup SetSchemaSection => ~InSection(u)

\* A step of the request handler.
HandlerStep == <<pc, ops, call, rowIdx>>' # <<pc, ops, call, rowIdx>>

\* C18: writeResult and writeErrFromError never take the session lock, so
\* no step of theirs changes it, and a method called by another flow of
\* control returns whatever the handler does: also when the handler stays
\* for ever in a write or a flush that is blocked on the transport.
C18_NoLockAcrossWrite ==
    /\ [][HandlerStep => mu' = mu]_vars
    /\ \A t \in Callers : (tpc[t] # "idle") ~> (tpc[t] = "idle")

C18_Witness ==
    /\ pc = "flush"
    /\ Len(buf) = 4
    /\ mu.writer = 1
    /\ tpc[1] = "SetSchema:unlock"
    /\ schema = [ptr |-> "db2", len |-> "db2"]

\* The flow of control t takes a step from position p.
StepFrom(t, p) == tpc[t] = p /\ tpc'[t] # p

\* A step of a read accessor: Addr, Schema or ID.
ReadAccessorStep ==
    \E t \in Threads :
        \E p \in {"Addr:lock", "Schema:lock", "ID:lock"} \cup ReadSection :
            StepFrom(t, p) \/ (tpc[t] = "idle" /\ tpc'[t] = p)

\* What a step may do to id, schema and the transport.
FrameStep ==
    /\ id' = id
    /\ schema' # schema =>
           \E t \in Threads : StepFrom(t, "SetSchema:ptr") \/ StepFrom(t, "SetSchema:len")
    /\ conn' # conn =>
           /\ conn = "open" /\ conn' = "nil"
           /\ \E t \in Threads : StepFrom(t, "Close:nil")
    /\ (HandlerStep \/ ReadAccessorStep) => UNCHANGED <<id, schema, conn>>

\* C20: the id never changes; the schema changes only in a SetSchema call;
\* the transport changes only from present to absent and only in a Close
\* call, so at most once and for good; no step of writeResult, of
\* writeErrFromError or of a read accessor changes any of the three.
C20_StateChangesOnlyWhereStated == [][FrameStep]_vars

C20_Witness ==
    /\ id = 5
    /\ conn = "nil"
    /\ closed
    /\ schema = [ptr |-> "db2", len |-> "db2"]
    /\ ReturnedFrom("writeResult")
    /\ ret = "nil"
    /\ Len(wire) = 4
    /\ tpc[1] = "ID:unlock"
    /\ tlocal[1].num = 5

====
